---- MODULE Spec2Model ----
(***************************************************************************)
(* Model of scripts/gen_traffic.py: the DexSwapTx record encoder, the      *)
(* swap scenario generators, the Ethernet/IPv4/UDP frame builder, the pcap *)
(* writer and the driver loop of main().                                   *)
(*                                                                         *)
(* Bytes are naturals in 0..255 and byte strings are sequences of them.    *)
(* Python integers that may exceed TLC's 32-bit integers are kept          *)
(* in sign-magnitude form: [neg |-> BOOLEAN, mag |-> little-endian         *)
(* sequence of 16-bit limbs].                                              *)
(***************************************************************************)
EXTENDS Integers, Sequences, FiniteSets, TLC

VARIABLES
    call,      \* arguments of the last direct call of a pure function
    ret,       \* what that call returned or raised
    pc,        \* position of the running invocation of main()
    args,      \* parsed command line of the running invocation
    tape,      \* the pseudo-random stream, a function of seed and position
    rng,       \* state of the module-level random source: seed and position
    i,         \* loop index of main()'s generation loop
    payload,   \* main()'s local `payload`
    frames,    \* main()'s local `frames`
    calls,     \* which make_* function produced each record, in order
    wi,        \* loop index of write_pcap's enumerate
    file,      \* bytes of the output file
    isopen,    \* whether write_pcap holds the file handle
    base,      \* write_pcap's base_ts_sec
    first      \* arguments and output file of the first, finished invocation

vars == <<call, ret, pc, args, tape, rng, i, payload, frames, calls, wi, file,
          isopen, base, first>>

-----------------------------------------------------------------------------
(* Bounds of the model *)

\* largest --count explored by the driver
MaxCount == 8
\* number of distinct raw outcomes the random stream can deliver
RawLevels == 3
\* period of the random stream
TapePeriod == 2
\* longest frame list handed directly to write_pcap
MaxFrames == 1001

-----------------------------------------------------------------------------
(* Byte strings and struct.pack *)

Byte == 0..255

Zeros(n) == [k \in 1..n |-> 0]

Min(a, b) == IF a <= b THEN a ELSE b

\* struct.pack either returns bytes or raises
Ok(b) == [ok |-> TRUE, bytes |-> b, err |-> "none"]

Raise(e) == [ok |-> FALSE, bytes |-> <<>>, err |-> e]

\* concatenation of two packing results, the first failure wins
Cat(a, b) ==
    IF ~a.ok THEN a
    ELSE IF ~b.ok THEN b
    ELSE Ok(a.bytes \o b.bytes)

\* little-endian bytes of a 16-bit limb
LimbLE(l) == <<l % 256, l \div 256>>

\* big-endian bytes of a 16-bit limb
LimbBE(l) == <<l \div 256, l % 256>>

\* limbs of a magnitude, extended or cut to n limbs
Limbs(mag, n) == [k \in 1..n |-> IF k <= Len(mag) THEN mag[k] ELSE 0]

\* whether a magnitude has a non-zero limb above limb n
Above(mag, n) == \E k \in DOMAIN mag : k > n /\ mag[k] # 0

IsZero(mag) == \A k \in DOMAIN mag : mag[k] = 0

\* a native non-negative integer below 2^31 as a Python integer
ToBig(n) == [neg |-> FALSE, mag |-> <<n % 65536, n \div 65536>>]

RECURSIVE Negate(_, _)
\* two's complement of limbs d: invert every limb and add the carry c
Negate(d, c) ==
    IF d = <<>> THEN <<>>
    ELSE LET s == (65535 - Head(d)) + c
         IN  <<s % 65536>> \o Negate(Tail(d), s \div 65536)

\* x & 0xFFFF_FFFF_FFFF_FFFF on a Python integer (infinite two's complement)
Mask64(x) ==
    IF x.neg
    THEN [neg |-> FALSE, mag |-> Negate(Limbs(x.mag, 4), 1)]
    ELSE [neg |-> FALSE, mag |-> Limbs(x.mag, 4)]

\* struct.pack("<Q", v), big-endian variant used as a fault
PackQBE(v) ==
    IF (v.neg /\ ~IsZero(v.mag)) \/ Above(v.mag, 4)
    THEN Raise("struct.error")
    ELSE LET l == Limbs(v.mag, 4)
         IN  Ok(LimbBE(l[4]) \o LimbBE(l[3]) \o LimbBE(l[2]) \o LimbBE(l[1]))

\* struct.pack("<Q", v)
PackQ(v) ==
    IF (v.neg /\ ~IsZero(v.mag)) \/ Above(v.mag, 4)
    THEN Raise("struct.error")
    ELSE LET l == Limbs(v.mag, 4)
         IN  Ok(LimbLE(l[1]) \o LimbLE(l[2]) \o LimbLE(l[3]) \o LimbLE(l[4]))

\* struct.pack("20s", s): cut to 20 bytes, or padded with zero bytes
Pack20s(s) == Ok([k \in 1..20 |-> IF k <= Len(s) THEN s[k] ELSE 0])

\* struct.pack("B", v)
PackB(v) == IF v \in Byte THEN Ok(<<v>>) ELSE Raise("struct.error")

\* struct.pack("<I", v) for a native v (always below 2^32 here)
PackI(v) ==
    IF v < 0 THEN Raise("struct.error")
    ELSE Ok(LimbLE(v % 65536) \o LimbLE(v \div 65536))

\* struct.pack("<I", v) for v = hi * 2^16 + lo
PackI2(hi, lo) == Ok(LimbLE(lo) \o LimbLE(hi))

\* struct.pack("<H", v)
PackHLE(v) ==
    IF v \in 0..65535 THEN Ok(LimbLE(v)) ELSE Raise("struct.error")

\* struct.pack(">H", v) that wraps instead of raising, used as a fault
PackHWrap(v) == Ok(LimbBE(v % 65536))

\* struct.pack(">H", v)
PackH(v) ==
    IF v \in 0..65535 THEN Ok(LimbBE(v)) ELSE Raise("struct.error")

-----------------------------------------------------------------------------
(* DexSwapTx encoding *)

WIRE_SIZE == 48

\* encode_dex_swap_tx without the token_direction assertion, used as a fault
EncodeNoDirCheck(nonce, pool_address, amount_in, min_amount_out, token_direction) ==
    IF Len(pool_address) # 20
    THEN Raise("AssertionError: pool_address must be 20 bytes")
    ELSE Cat(PackQ(Mask64(nonce)),
         Cat(Pack20s(pool_address),
         Cat(PackQ(Mask64(amount_in)),
         Cat(PackQ(Mask64(min_amount_out)),
         Cat(PackB(token_direction), Ok(Zeros(3)))))))

encode_dex_swap_tx(nonce, pool_address, amount_in, min_amount_out, token_direction) ==
    IF Len(pool_address) # 20
    THEN Raise("AssertionError: pool_address must be 20 bytes")
    ELSE IF token_direction \notin {0, 1}
    THEN Raise("AssertionError: token_direction must be 0 or 1")
    ELSE Cat(PackQ(Mask64(nonce)),
         Cat(Pack20s(pool_address),
         Cat(PackQ(Mask64(amount_in)),
         Cat(PackQ(Mask64(min_amount_out)),
         Cat(PackB(token_direction), Ok(Zeros(3)))))))

POOL_ADDR_ETH_USDC ==
    <<160, 184, 105, 145, 198, 33, 139, 54, 193, 209,
      157, 74, 46, 158, 176, 206, 54, 6, 235, 72>>

POOL_ADDR_WBTC_ETH ==
    <<203, 205, 249, 98, 107, 192, 62, 36, 247, 121,
      67, 65, 120, 167, 58, 11, 75, 173, 98, 237>>

-----------------------------------------------------------------------------
(* The module-level random source *)

Seeds == {42, 7}

Tapes == [0..(TapePeriod - 1) -> 0..(RawLevels - 1)]

\* raw outcome of level k: 0 maps a draw to its lowest value, -1 to its highest,
\* the others to values inside the range
RawValue(k) ==
    CASE k = 0 -> 0
      [] k = 1 -> -1
      [] OTHER -> (k - 1) * 199999999

\* random.seed(seed)
Seeded(seed) == [seed |-> seed, pos |-> 0]

\* a stream that ignores the seed and differs between invocations, used as a fault
RawUnseeded(seed, pos) ==
    RawValue(tape[(pos + (IF first.done THEN 1 ELSE 0)) % TapePeriod])

\* the raw outcome at position pos of the stream that random.seed(seed) starts
Raw(seed, pos) == RawValue(tape[(seed + pos) % TapePeriod])

\* the k-th draw from state s
Draw(s, k) == Raw(s.seed, s.pos + k)

\* the state after n draws
Advance(s, n) == [seed |-> s.seed, pos |-> s.pos + n]

\* random.randint(lo, hi) on raw outcome r
randint(r, lo, hi) == lo + (r % (hi - lo + 1))

\* random.choice(seq) on raw outcome r
choice(r, seq) == seq[1 + (r % Len(seq))]

-----------------------------------------------------------------------------
(* Packet generation scenarios; each returns the payload and the advanced    *)
(* random state                                                              *)

\* int(amount_in * 0.90): the double product truncates to the exact floor of
\* 9 * amount_in / 10 for every amount_in in 10_000_000..200_000_000
MinOut90(a) == (a * 9) \div 10

\* int(amount_in * 0.99), the slippage the comment of make_large_swap names,
\* used as a fault
MinOut99(a) == (99 * (a \div 100)) + ((99 * (a % 100)) \div 100)

\* int(amount_in * 0.999): the double product truncates to the exact floor of
\* 999 * amount_in / 1000 for every amount_in in 5_000_000..50_000_000
MinOut999(a) == (999 * (a \div 1000)) + ((999 * (a % 1000)) \div 1000)

make_small_swap(nonce, s) ==
    LET amount_in == randint(Draw(s, 0), 1, 999999)
        direction == randint(Draw(s, 1), 0, 1)
    IN  [out |-> encode_dex_swap_tx(ToBig(nonce), POOL_ADDR_ETH_USDC,
                                    ToBig(amount_in), ToBig(1), direction),
         rng |-> Advance(s, 2)]

\* make_large_swap with the 1% slippage of its comment, used as a fault
MakeLargeSwap99(nonce, s) ==
    LET amount_in == randint(Draw(s, 0), 10000000, 200000000)
        min_out   == MinOut99(amount_in)
        pool      == choice(Draw(s, 1), <<POOL_ADDR_ETH_USDC, POOL_ADDR_WBTC_ETH>>)
        direction == randint(Draw(s, 2), 0, 1)
    IN  [out |-> encode_dex_swap_tx(ToBig(nonce), pool, ToBig(amount_in),
                                    ToBig(min_out), direction),
         rng |-> Advance(s, 3)]

make_large_swap(nonce, s) ==
    LET amount_in == randint(Draw(s, 0), 10000000, 200000000)
        min_out   == MinOut90(amount_in)
        pool      == choice(Draw(s, 1), <<POOL_ADDR_ETH_USDC, POOL_ADDR_WBTC_ETH>>)
        direction == randint(Draw(s, 2), 0, 1)
    IN  [out |-> encode_dex_swap_tx(ToBig(nonce), pool, ToBig(amount_in),
                                    ToBig(min_out), direction),
         rng |-> Advance(s, 3)]

make_tight_slippage_swap(nonce, s) ==
    LET amount_in == randint(Draw(s, 0), 5000000, 50000000)
        min_out   == MinOut999(amount_in)
    IN  [out |-> encode_dex_swap_tx(ToBig(nonce), POOL_ADDR_ETH_USDC,
                                    ToBig(amount_in), ToBig(min_out), 0),
         rng |-> Advance(s, 1)]

-----------------------------------------------------------------------------
(* pcap writing *)

\* struct.pack("<IHHiIII", 0xA1B2C3D4, 2, 4, 0, 0, 65535, 1)
PCAP_GLOBAL_HEADER ==
    Cat(PackI2(41394, 50132),
    Cat(PackHLE(2),
    Cat(PackHLE(4),
    Cat(PackI(0),
    Cat(PackI(0),
    Cat(PackI(65535), PackI(1))))))).bytes

SRC_IP == <<192, 168, 69, 1>>
DST_IP == <<192, 168, 69, 2>>
SRC_PORT == 54321
DST_PORT == 8080
SRC_MAC == <<0, 17, 34, 51, 68, 85>>
DST_MAC == <<2, 0, 0, 0, 0, 1>>
BASE_TS_SEC == 1700000000

\* the frame together with the random state it leaves: the identification is
\* drawn after the UDP header is packed, before the IPv4 header is
ethernet_ip_udp_frame(pl, src_ip, dst_ip, src_port, dst_port, src_mac, dst_mac, s) ==
    LET udp_len == 8 + Len(pl)
        udp_hdr == Cat(PackH(src_port),
                   Cat(PackH(dst_port),
                   Cat(PackH(udp_len), PackH(0))))
        ip_len  == 20 + udp_len
        ident   == randint(Draw(s, 0), 1, 65535)
        ip_hdr  == Cat(PackB(69),
                   Cat(PackB(0),
                   Cat(PackH(ip_len),
                   Cat(PackH(ident),
                   Cat(PackH(16384),
                   Cat(PackB(64),
                   Cat(PackB(17),
                   Cat(PackH(0),
                   Cat(Ok(src_ip), Ok(dst_ip))))))))))
    IN  IF ~udp_hdr.ok
        THEN [out |-> udp_hdr, rng |-> s]
        ELSE [out |-> Cat(Ok(dst_mac \o src_mac \o <<8, 0>>),
                      Cat(ip_hdr, Cat(udp_hdr, Ok(pl)))),
              rng |-> Advance(s, 1)]

\* record header and frame with the microseconds not reduced modulo one second,
\* used as a fault
PcapRecordNoWrap(fs, idx, base_ts_sec) ==
    LET frame == fs[idx + 1]
    IN  Cat(PackI(base_ts_sec + (idx \div 1000)),
        Cat(PackI(idx * 1000),
        Cat(PackI(Len(frame)),
        Cat(PackI(Len(frame)), Ok(frame)))))

\* record header and frame with the captured length cut to a snap length, used
\* as a fault
PcapRecordSnap(fs, idx, base_ts_sec) ==
    LET frame == fs[idx + 1]
    IN  Cat(PackI(base_ts_sec + (idx \div 1000)),
        Cat(PackI((idx % 1000) * 1000),
        Cat(PackI(Min(Len(frame), 64)),
        Cat(PackI(Len(frame)), Ok(SubSeq(frame, 1, Min(Len(frame), 64)))))))

\* record header and frame with the timestamp counted from the end of the list,
\* used as a fault
PcapRecordCountdown(fs, idx, base_ts_sec) ==
    LET frame == fs[idx + 1]
        left  == Len(fs) - idx
    IN  Cat(PackI(base_ts_sec + (left \div 1000)),
        Cat(PackI((left % 1000) * 1000),
        Cat(PackI(Len(frame)),
        Cat(PackI(Len(frame)), Ok(frame)))))

\* what one iteration of write_pcap's loop writes for index idx of list fs
PcapRecord(fs, idx, base_ts_sec) ==
    LET frame    == fs[idx + 1]
        ts_sec   == base_ts_sec + (idx \div 1000)
        ts_usec  == (idx % 1000) * 1000
        incl_len == Len(frame)
        orig_len == incl_len
    IN  Cat(PackI(ts_sec),
        Cat(PackI(ts_usec),
        Cat(PackI(incl_len),
        Cat(PackI(orig_len), Ok(frame)))))

-----------------------------------------------------------------------------
(* State shared by the specifications *)

Modes == {"large", "small", "tight", "mixed"}

NoCall == [fn |-> "none"]

NoArgs == [count |-> 0, mode |-> "none", seed |-> 0]

NoFirst == [done |-> FALSE, args |-> NoArgs, file |-> <<>>]

-----------------------------------------------------------------------------
(* Direct calls of encode_dex_swap_tx *)

\* Python integers with their residue modulo 2^64 worked out by hand, as limbs:
\* 0, 1, 0x0807060504030201, 2^64 - 1, 2^64, 5 * 2^64 + 0x0807060504030201,
\* -1, -2^64, -(2^64 + 2), -65536
IntSamples ==
    { [x |-> [neg |-> FALSE, mag |-> <<>>],
       mod64 |-> <<0, 0, 0, 0>>],
      [x |-> [neg |-> FALSE, mag |-> <<1>>],
       mod64 |-> <<1, 0, 0, 0>>],
      [x |-> [neg |-> FALSE, mag |-> <<513, 1027, 1541, 2055>>],
       mod64 |-> <<513, 1027, 1541, 2055>>],
      [x |-> [neg |-> FALSE, mag |-> <<65535, 65535, 65535, 65535>>],
       mod64 |-> <<65535, 65535, 65535, 65535>>],
      [x |-> [neg |-> FALSE, mag |-> <<0, 0, 0, 0, 1>>],
       mod64 |-> <<0, 0, 0, 0>>],
      [x |-> [neg |-> FALSE, mag |-> <<513, 1027, 1541, 2055, 5>>],
       mod64 |-> <<513, 1027, 1541, 2055>>],
      [x |-> [neg |-> TRUE, mag |-> <<1>>],
       mod64 |-> <<65535, 65535, 65535, 65535>>],
      [x |-> [neg |-> TRUE, mag |-> <<0, 0, 0, 0, 1>>],
       mod64 |-> <<0, 0, 0, 0>>],
      [x |-> [neg |-> TRUE, mag |-> <<2, 0, 0, 0, 1>>],
       mod64 |-> <<65534, 65535, 65535, 65535>>],
      [x |-> [neg |-> TRUE, mag |-> <<0, 1>>],
       mod64 |-> <<0, 65535, 65535, 65535>>] }

\* the samples used for the two amount arguments
AmountSamples ==
    { smp \in IntSamples : Len(smp.x.mag) \in {1, 4, 5} /\ smp.x.mag[1] # 2 }

Ramp(n) == [k \in 1..n |-> k]

PoolSamples ==
    { POOL_ADDR_ETH_USDC, POOL_ADDR_WBTC_ETH, Ramp(20),
      <<>>, Ramp(19), Ramp(21), Ramp(100) }

DirSamples == {0, 1, 2, 255}

\* no call made yet, its arguments drawn
InitCodec ==
    /\ pc = "idle"
    /\ tape = [k \in 0..(TapePeriod - 1) |-> 0]
    /\ \E n \in IntSamples, a \in AmountSamples, m \in AmountSamples,
          p \in PoolSamples, d \in DirSamples :
          call = [fn |-> "encode", nonce |-> n, pool_address |-> p,
                  amount_in |-> a, min_amount_out |-> m, token_direction |-> d]
    /\ ret = Ok(<<>>)
    /\ args = NoArgs
    /\ rng = Seeded(0)
    /\ i = 0
    /\ payload = <<>>
    /\ frames = <<>>
    /\ calls = <<>>
    /\ wi = 0
    /\ file = <<>>
    /\ isopen = FALSE
    /\ base = BASE_TS_SEC
    /\ first = NoFirst

EncodeCall ==
    /\ pc = "idle"
    /\ call.fn = "encode"
    /\ ret' = encode_dex_swap_tx(call.nonce.x, call.pool_address, call.amount_in.x,
                                 call.min_amount_out.x, call.token_direction)
    /\ pc' = "returned"
    /\ UNCHANGED <<call, args, tape, rng, i, payload, frames, calls, wi, file,
                   isopen, base, first>>

NextCodec == EncodeCall

SpecCodec == InitCodec /\ [][NextCodec]_vars

-----------------------------------------------------------------------------
(* Direct calls of ethernet_ip_udp_frame, each right after random.seed *)

PayloadSamples ==
    { <<>>, <<7>>, Ramp(WIRE_SIZE),
      Zeros(65507), Zeros(65508), Zeros(65527), Zeros(65528) }

AddrSamples ==
    { [src_ip |-> SRC_IP, dst_ip |-> DST_IP, src_port |-> SRC_PORT,
       dst_port |-> DST_PORT, src_mac |-> SRC_MAC, dst_mac |-> DST_MAC],
      [src_ip |-> <<10, 0, 0, 1>>, dst_ip |-> <<10, 0, 0, 2>>, src_port |-> 0,
       dst_port |-> 65535, src_mac |-> DST_MAC, dst_mac |-> SRC_MAC] }

InitFrame ==
    /\ pc = "idle"
    /\ tape \in Tapes
    /\ \E pl \in PayloadSamples, ad \in AddrSamples :
          call = [fn |-> "frame", payload |-> pl, addr |-> ad]
    /\ ret = Ok(<<>>)
    /\ args = NoArgs
    /\ \E sd \in Seeds : rng = Seeded(sd)
    /\ i = 0
    /\ payload = <<>>
    /\ frames = <<>>
    /\ calls = <<>>
    /\ wi = 0
    /\ file = <<>>
    /\ isopen = FALSE
    /\ base = BASE_TS_SEC
    /\ first = NoFirst

FrameCall ==
    /\ pc = "idle"
    /\ call.fn = "frame"
    /\ LET r == ethernet_ip_udp_frame(call.payload, call.addr.src_ip,
                                      call.addr.dst_ip, call.addr.src_port,
                                      call.addr.dst_port, call.addr.src_mac,
                                      call.addr.dst_mac, rng)
       IN  /\ ret' = r.out
           /\ rng' = r.rng
    /\ pc' = "returned"
    /\ UNCHANGED <<call, args, tape, i, payload, frames, calls, wi, file,
                   isopen, base, first>>

NextFrame == FrameCall

SpecFrame == InitFrame /\ [][NextFrame]_vars

-----------------------------------------------------------------------------
(* write_pcap *)

\* with open(filename, "wb") as f: f.write(PCAP_GLOBAL_HEADER)
WriteOpen ==
    /\ pc = "open"
    /\ isopen' = TRUE
    /\ file' = PCAP_GLOBAL_HEADER
    /\ wi' = 0
    /\ pc' = "write"
    /\ UNCHANGED <<call, ret, args, tape, rng, i, payload, frames, calls, base, first>>

\* one iteration of `for i, frame in enumerate(frames)`
WriteRecord ==
    /\ pc = "write"
    /\ wi < Len(frames)
    /\ LET r == PcapRecord(frames, wi, base)
       IN  IF r.ok
           THEN /\ file' = file \o r.bytes
                /\ wi' = wi + 1
                /\ UNCHANGED <<pc, isopen>>
           ELSE /\ pc' = "failed"
                /\ isopen' = FALSE
                /\ UNCHANGED <<file, wi>>
    /\ UNCHANGED <<call, ret, args, tape, rng, i, payload, frames, calls, base, first>>

\* the list is exhausted: the with block closes the file and write_pcap returns
WriteClose ==
    /\ pc = "write"
    /\ wi = Len(frames)
    /\ isopen' = FALSE
    /\ pc' = "return"
    /\ UNCHANGED <<call, ret, args, tape, rng, i, payload, frames, calls, wi, file,
                   base, first>>

RECURSIVE WriteRange(_, _, _, _)
\* what the loop of write_pcap writes for the indices lo..(hi - 1), in index
\* order; the range is halved to keep the evaluation shallow
WriteRange(fs, lo, hi, base_ts_sec) ==
    IF lo >= hi THEN Ok(<<>>)
    ELSE IF hi = lo + 1 THEN PcapRecord(fs, lo, base_ts_sec)
    ELSE LET mid == (lo + hi) \div 2
         IN  Cat(WriteRange(fs, lo, mid, base_ts_sec),
                 WriteRange(fs, mid, hi, base_ts_sec))

\* the file a whole call of write_pcap leaves
write_pcap(fs, base_ts_sec) ==
    Cat(Ok(PCAP_GLOBAL_HEADER), WriteRange(fs, 0, Len(fs), base_ts_sec))

\* frame lists handed directly to write_pcap: n frames of w bytes each
FrameLists ==
    { [k \in 1..n |-> [j \in 1..w |-> (k + j) % 256]] :
        n \in {0, 1, 2, 3, 999, 1000, MaxFrames}, w \in {0, 1, 3} }

InitWrite ==
    /\ pc = "idle"
    /\ tape = [k \in 0..(TapePeriod - 1) |-> 0]
    /\ frames \in FrameLists
    /\ base \in {0, 1, 2, BASE_TS_SEC}
    /\ call = [fn |-> "write_pcap"]
    /\ ret = Ok(<<>>)
    /\ args = NoArgs
    /\ rng = Seeded(0)
    /\ i = 0
    /\ payload = <<>>
    /\ calls = <<>>
    /\ wi = 0
    /\ file = <<>>
    /\ isopen = FALSE
    /\ first = NoFirst

\* a whole direct call of write_pcap(filename, frames, base_ts_sec)
WritePcapCall ==
    /\ pc = "idle"
    /\ call.fn = "write_pcap"
    /\ LET r == write_pcap(frames, base)
       IN  /\ ret' = [ok |-> r.ok, bytes |-> <<>>, err |-> r.err]
           /\ file' = r.bytes
           /\ wi' = IF r.ok THEN Len(frames) ELSE wi
    /\ pc' = "returned"
    /\ UNCHANGED <<call, args, tape, rng, i, payload, frames, calls, isopen, base, first>>

NextWrite == WritePcapCall

SpecWrite == InitWrite /\ [][NextWrite]_vars

-----------------------------------------------------------------------------
(* main *)

\* the if/elif chain of the generation loop: the make_* function called for index idx
ClassOfThirds(mode, idx) ==
    IF mode = "large" THEN "large"
    ELSE IF mode = "small" THEN "small"
    ELSE IF mode = "tight" THEN "tight"
    ELSE LET r == idx % 3
         IN  IF r = 0 THEN "small"
             ELSE IF r = 1 THEN "tight"
             ELSE "large"

ClassOf(mode, idx) ==
    IF mode = "large" THEN "large"
    ELSE IF mode = "small" THEN "small"
    ELSE IF mode = "tight" THEN "tight"
    ELSE LET r == idx % 4
         IN  IF r = 0 THEN "small"
             ELSE IF r = 1 THEN "tight"
             ELSE "large"

MakeSwap(kind, nonce, s) ==
    CASE kind = "large" -> make_large_swap(nonce, s)
      [] kind = "small" -> make_small_swap(nonce, s)
      [] kind = "tight" -> make_tight_slippage_swap(nonce, s)

\* a loop that stops after its first record, used as a fault
RangeDoneEarly(idx, count) == idx >= Min(count, 1)

\* `for i in range(args.count)` has no further index
RangeDone(idx, count) == idx >= count

ArgSets == [count : 0..MaxCount, mode : Modes, seed : Seeds]

Init ==
    /\ pc = "start"
    /\ tape \in Tapes
    /\ args \in ArgSets
    /\ call = NoCall
    /\ ret = Ok(<<>>)
    /\ rng = Seeded(0)
    /\ i = 0
    /\ payload = <<>>
    /\ frames = <<>>
    /\ calls = <<>>
    /\ wi = 0
    /\ file = <<>>
    /\ isopen = FALSE
    /\ base = BASE_TS_SEC
    /\ first = NoFirst

\* random.seed(args.seed); frames = []
Seed ==
    /\ pc = "start"
    /\ rng' = Seeded(args.seed)
    /\ frames' = <<>>
    /\ i' = 0
    /\ pc' = "loop"
    /\ UNCHANGED <<call, ret, args, tape, payload, calls, wi, file, isopen, base, first>>

\* payload = make_*_swap(nonce=i)
MakePayload ==
    /\ pc = "loop"
    /\ ~RangeDone(i, args.count)
    /\ LET kind == ClassOf(args.mode, i)
           r    == MakeSwap(kind, i, rng)
       IN  /\ calls' = Append(calls, kind)
           /\ rng' = r.rng
           /\ IF r.out.ok
              THEN payload' = r.out.bytes /\ pc' = "frame"
              ELSE pc' = "failed" /\ UNCHANGED payload
    /\ UNCHANGED <<call, ret, args, tape, i, frames, wi, file, isopen, base, first>>

\* assert len(payload) == WIRE_SIZE; frames.append(ethernet_ip_udp_frame(payload))
AppendFrame ==
    /\ pc = "frame"
    /\ IF Len(payload) # WIRE_SIZE
       THEN pc' = "failed" /\ UNCHANGED <<rng, frames, i>>
       ELSE LET r == ethernet_ip_udp_frame(payload, SRC_IP, DST_IP, SRC_PORT,
                                           DST_PORT, SRC_MAC, DST_MAC, rng)
            IN  /\ rng' = r.rng
                /\ IF r.out.ok
                   THEN /\ frames' = Append(frames, r.out.bytes)
                        /\ i' = i + 1
                        /\ pc' = "loop"
                   ELSE pc' = "failed" /\ UNCHANGED <<frames, i>>
    /\ UNCHANGED <<call, ret, args, tape, payload, calls, wi, file, isopen, base, first>>

\* the loop is over: write_pcap(args.out, frames) is called
CallWritePcap ==
    /\ pc = "loop"
    /\ RangeDone(i, args.count)
    /\ base' = BASE_TS_SEC
    /\ pc' = "open"
    /\ UNCHANGED <<call, ret, args, tape, rng, i, payload, frames, calls, wi, file,
                   isopen, first>>

\* write_pcap has returned to main: the summary is printed and the process ends
Finish ==
    /\ pc = "return"
    /\ args # NoArgs
    /\ pc' = "done"
    /\ UNCHANGED <<call, ret, args, tape, rng, i, payload, frames, calls, wi, file,
                   isopen, base, first>>

\* the script is invoked a second time, in a fresh process, with the same mode
SecondRun ==
    /\ pc = "done"
    /\ ~first.done
    /\ first' = [done |-> TRUE, args |-> args, file |-> file]
    /\ \E c \in {args.count, args.count + 1}, sd \in Seeds :
          args' = [count |-> c, mode |-> args.mode, seed |-> sd]
    /\ pc' = "start"
    /\ rng' = Seeded(0)
    /\ i' = 0
    /\ payload' = <<>>
    /\ frames' = <<>>
    /\ calls' = <<>>
    /\ wi' = 0
    /\ file' = <<>>
    /\ UNCHANGED <<call, ret, tape, isopen, base>>

Next ==
    \/ Seed
    \/ MakePayload
    \/ AppendFrame
    \/ CallWritePcap
    \/ WriteOpen
    \/ WriteRecord
    \/ WriteClose
    \/ Finish
    \/ SecondRun

Spec == Init /\ [][Next]_vars

-----------------------------------------------------------------------------
(* An independent reader of the formats, used to state the properties *)

U16LE(b, off) == b[off + 1] + (256 * b[off + 2])

U16BE(b, off) == (256 * b[off + 1]) + b[off + 2]

\* a u32 below 2^31 read little-endian
U32LE(b, off) == U16LE(b, off) + (65536 * U16LE(b, off + 2))

\* a u64 read little-endian, as four 16-bit limbs
U64LE(b, off) ==
    <<U16LE(b, off), U16LE(b, off + 2), U16LE(b, off + 4), U16LE(b, off + 6)>>

\* the limbs of a native value
LimbsOf(n) == <<n % 65536, n \div 65536, 0, 0>>

\* the DexSwapTx layout: u64 at 0, 20 bytes at 8, u64 at 28, u64 at 36, u8 at 44,
\* three reserved bytes at 45
DecodeTx(b) ==
    [nonce          |-> U64LE(b, 0),
     pool_address   |-> SubSeq(b, 9, 28),
     amount_in      |-> U64LE(b, 28),
     min_amount_out |-> U64LE(b, 36),
     direction      |-> b[45],
     reserved       |-> SubSeq(b, 46, 48)]

\* the value of a u64 whose upper 33 bits are clear
Small(l) == l[1] + (65536 * l[2])

IsSmall(l) == l[3] = 0 /\ l[4] = 0 /\ l[2] < 32768

\* the 24 bytes of the global header as section 6 of the specification lists them
GlobalHeaderBytes ==
    <<212, 195, 178, 161, 2, 0, 4, 0, 0, 0, 0, 0,
      0, 0, 0, 0, 255, 255, 0, 0, 1, 0, 0, 0>>

\* in a file of the driver every entry is 16 + 90 bytes long
EntryOff(k) == 24 + (k * 106)

\* number of whole entries in the driver's file
Written == IF Len(file) < 24 THEN 0 ELSE (Len(file) - 24) \div 106

\* the payload of a 90-byte frame
PayloadOf(frame) == SubSeq(frame, 43, 90)

IsPrefix(a, b) == Len(a) <= Len(b) /\ SubSeq(b, 1, Len(a)) = a

-----------------------------------------------------------------------------
(* Properties of encode_dex_swap_tx, under SpecCodec *)

ValidCall ==
    /\ call.fn = "encode"
    /\ Len(call.pool_address) = 20
    /\ call.token_direction \in {0, 1}

\* C1: for every integer nonce, amountIn and minAmountOut, 20-byte pool address
\* and direction in {0,1}, the encoder returns exactly 48 bytes that an
\* independent reader of the layout decodes to (nonce mod 2^64, pool address,
\* amountIn mod 2^64, minAmountOut mod 2^64, direction) and three zero bytes.
EncodeRoundTrip ==
    (pc = "returned" /\ ValidCall) =>
        /\ ret.ok
        /\ Len(ret.bytes) = 48
        /\ DecodeTx(ret.bytes) =
              [nonce          |-> call.nonce.mod64,
               pool_address   |-> call.pool_address,
               amount_in      |-> call.amount_in.mod64,
               min_amount_out |-> call.min_amount_out.mod64,
               direction      |-> call.token_direction,
               reserved       |-> <<0, 0, 0>>]

\* a valid call with a nonce of 2^64 or more and a negative amount has returned
EncodeRoundTripWitness ==
    /\ pc = "returned"
    /\ ValidCall
    /\ ret.ok
    /\ Len(call.nonce.x.mag) = 5
    /\ ~call.nonce.x.neg
    /\ call.nonce.mod64 # <<0, 0, 0, 0>>
    /\ call.amount_in.x.neg
    /\ call.pool_address = Ramp(20)

\* C2: the encoder fails exactly when the pool address is not 20 bytes long or
\* the direction is neither 0 nor 1; integers outside the 64-bit range never
\* make it fail.
EncodeFailsExactly ==
    (pc = "returned" /\ call.fn = "encode") =>
        (~ret.ok <=> (Len(call.pool_address) # 20 \/ call.token_direction \notin {0, 1}))

\* a call with a 19-byte pool address and otherwise valid arguments has failed
EncodeFailsWitness ==
    /\ pc = "returned"
    /\ call.fn = "encode"
    /\ Len(call.pool_address) = 19
    /\ call.token_direction = 1
    /\ ~ret.ok

-----------------------------------------------------------------------------
(* Properties of ethernet_ip_udp_frame, under SpecFrame *)

\* C6: in every frame returned, the IPv4 total length field is 20 + 8 + len(payload),
\* the UDP length field is 8 + len(payload) and the frame is 14 + 20 + 8 +
\* len(payload) bytes long; no field holds a value wrapped modulo 2^16.
FrameLengths ==
    (pc = "returned" /\ call.fn = "frame" /\ ret.ok) =>
        /\ U16BE(ret.bytes, 16) = 20 + 8 + Len(call.payload)
        /\ U16BE(ret.bytes, 38) = 8 + Len(call.payload)
        /\ Len(ret.bytes) = 14 + 20 + 8 + Len(call.payload)

\* the largest payload whose lengths fit 16 bits has been framed
FrameLengthsWitness ==
    /\ pc = "returned"
    /\ call.fn = "frame"
    /\ ret.ok
    /\ Len(call.payload) = 65507

-----------------------------------------------------------------------------
(* Properties of write_pcap, under SpecWrite *)

\* the frames of a list handed to write_pcap here all have the length of the first
FrameLen == IF frames = <<>> THEN 0 ELSE Len(frames[1])

WOff(k) == 24 + (k * (16 + FrameLen))

TsSec(k) == U32LE(file, WOff(k))

TsUsec(k) == U32LE(file, WOff(k) + 4)

\* C5: the record at index k carries ts_sec = base + k div 1000 and ts_usec =
\* (k mod 1000) * 1000; the pairs of successive records never decrease; from
\* index 999 to index 1000 ts_sec grows by exactly 1 and ts_usec goes from
\* 999000 to 0.
TimestampsMonotone ==
    /\ \A k \in 0..(wi - 1) :
          /\ TsSec(k) = base + (k \div 1000)
          /\ TsUsec(k) = (k % 1000) * 1000
    /\ \A k \in 1..(wi - 1) :
          \/ TsSec(k - 1) < TsSec(k)
          \/ TsSec(k - 1) = TsSec(k) /\ TsUsec(k - 1) <= TsUsec(k)
    /\ wi > 1000 =>
          /\ TsSec(1000) = TsSec(999) + 1
          /\ TsUsec(999) = 999000
          /\ TsUsec(1000) = 0

\* a file holding the records of index 999 and 1000 has been completed
TimestampsWitness ==
    /\ pc = "returned"
    /\ ret.ok
    /\ wi > 1000
    /\ base = BASE_TS_SEC
    /\ FrameLen = 1

-----------------------------------------------------------------------------
(* Properties of the driver, under Spec *)

BothDone == pc = "done" /\ first.done

MixedPattern == <<"small", "tight", "large", "large">>

\* C4: in mode mixed the class of record k is fixed by k mod 4, whatever the
\* seed: small, tight, large, large; for count 8 the classes are exactly
\* small, tight, large, large, small, tight, large, large.
MixedCycle ==
    args.mode = "mixed" =>
        /\ \A k \in 0..(Len(calls) - 1) : calls[k + 1] = MixedPattern[(k % 4) + 1]
        /\ (args.count = 8 /\ pc \in {"open", "write", "return", "done"}) =>
              calls = <<"small", "tight", "large", "large",
                        "small", "tight", "large", "large">>

\* a mixed invocation with count 8 has finished
MixedCycleWitness ==
    /\ args.mode = "mixed"
    /\ args.count = 8
    /\ pc = "done"
    /\ Len(calls) = 8

\* C7: a completed invocation leaves the fixed 24-byte global header followed
\* by exactly count entries in generation order (entry k carries nonce k),
\* each declaring incl_len = orig_len = 90 and followed by 90 frame bytes.
FileLayout ==
    pc \in {"return", "done"} =>
        /\ Len(file) = 24 + (args.count * (16 + 90))
        /\ SubSeq(file, 1, 24) = GlobalHeaderBytes
        /\ \A k \in 0..(args.count - 1) :
              /\ U32LE(file, EntryOff(k) + 8) = 90
              /\ U32LE(file, EntryOff(k) + 12) = 90
              /\ SubSeq(file, EntryOff(k) + 17, EntryOff(k) + 22) = DST_MAC
              /\ U64LE(file, EntryOff(k) + 16 + 42) = LimbsOf(k)

\* the invocation with count 4, mode large and seed 42 has completed
FileLayoutWitness ==
    /\ pc = "done"
    /\ args = [count |-> 4, mode |-> "large", seed |-> 42]
    /\ Len(file) > 24

\* the bounds of the profile `kind` on a decoded record
InProfile(kind, tx) ==
    /\ IsSmall(tx.amount_in)
    /\ IsSmall(tx.min_amount_out)
    /\ LET a == Small(tx.amount_in)
           m == Small(tx.min_amount_out)
       IN  CASE kind = "small" ->
                  /\ a \in 1..999999
                  /\ m = 1
             [] kind = "large" ->
                  /\ a \in 10000000..200000000
                  /\ 10 * m <= 9 * a
                  /\ 9 * a < 10 * (m + 1)
                  /\ tx.pool_address \in {POOL_ADDR_ETH_USDC, POOL_ADDR_WBTC_ETH}
             [] kind = "tight" ->
                  /\ a \in 5000000..50000000
                  /\ a <= 1000 * (a - m)
                  /\ 1000 * (a - m - 1) < a
                  /\ tx.direction = 0
                  /\ tx.pool_address = POOL_ADDR_ETH_USDC

WrittenBeforeNextGenerated ==
    Len(calls) >= 2 => Written >= Len(calls) - 1

\* C9 as amended: records are generated, encoded and framed one at a time, each
\* framed before the next is generated; none is written before all of them are
\* framed; the file holds them in generation order.
FramedThenAllWritten ==
    /\ Len(calls) = Len(frames) + (IF pc = "frame" THEN 1 ELSE 0)
    /\ Written > 0 => (Len(frames) = args.count /\ pc \in {"write", "return", "done"})
    /\ Written <= Len(frames)
    /\ \A k \in 0..(Written - 1) :
          SubSeq(file, EntryOff(k) + 17, EntryOff(k) + 106) = frames[k + 1]

\* the file holds the first two of at least three records, all framed earlier
FramedThenAllWrittenWitness ==
    /\ pc = "write"
    /\ Written = 2
    /\ args.count >= 3

\* C10: for a fixed mode and seed, the file produced with count n is a prefix of
\* the file produced with count n + 1.
PrefixStable ==
    (/\ BothDone
     /\ args.mode = first.args.mode
     /\ args.seed = first.args.seed
     /\ args.count = first.args.count + 1) => IsPrefix(first.file, file)

\* invocations with counts 3 and 4 and the same mode and seed have finished
PrefixStableWitness ==
    /\ BothDone
    /\ args.mode = first.args.mode
    /\ args.seed = first.args.seed
    /\ first.args.count = 3
    /\ args.count = 4
    /\ args.mode = "mixed"

====
